---------------------------- MODULE Spec2Model ----------------------------
(***************************************************************************)
(* CustomSummation (openmmapi/src/CustomSummation.cpp): a function object  *)
(* that evaluates a sum of per-term expressions, and its first             *)
(* derivatives, through a private OpenMM Context.  The model keeps the     *)
(* heap explicit: every CustomSummation points to a CustomCompoundBondForce*)
(* and to an Evaluator, and the Evaluator's Context points back to the     *)
(* force it was built from.                                                *)
(***************************************************************************)
EXTENDS Integers, Sequences, FiniteSets, TLC

(* ------------------------------ bounds -------------------------------- *)
MaxTerms == 2
MaxCloneOps == 1

(* ------------------------- program constants --------------------------- *)
INT_MAX == 2147483647

(* ----------------------------- input sets ------------------------------ *)
ObjIds == {1, 2}
NumArgsVals == {1, 2}
\* argument counts given to a constructor call that may fail
NewArgCounts == {-5, -4, -1, 0, 1, 3, 4, 5, INT_MAX}
ParamNames == {"sigma"}
ParamVals == {1, 2}
DefaultVals == {1}
PerTermParameterNames == <<"mu">>
TermVals == {0, 1}
OrderVals == {-1, 0, 1, 2, INT_MAX}

VARIABLES numArgs, objs, forces, evals, ret, cloneOps
vars == <<numArgs, objs, forces, evals, ret, cloneOps>>

(* ------------------------------ helpers -------------------------------- *)
RECURSIVE SeqsOfLen(_, _)
SeqsOfLen(S, n) ==
    IF n = 0 THEN {<<>>}
    ELSE {Append(s, x) : s \in SeqsOfLen(S, n - 1), x \in S}

RECURSIVE SumTo(_, _)
SumTo(f, n) == IF n = 0 THEN 0 ELSE f[n] + SumTo(f, n - 1)

Vec3Zero == <<0, 0, 0>>

\* int arithmetic: a + b for b >= 0 wraps around beyond INT_MAX, and /
\* truncates toward zero.
AddInt(a, b) ==
    IF a > INT_MAX - b
    THEN (a - INT_MAX) + (b - 1) + (0 - INT_MAX - 1)
    ELSE a + b

IntDiv(a, b) == IF a >= 0 THEN a \div b ELSE 0 - ((0 - a) \div b)

(* ----------------------- OpenMM backend (Context) ---------------------- *)
\* The per-term expression: sigma*((x1-mu)^2+(y1-mu)^2+(z1-mu)^2+...) over
\* every component of every point, padding components included.
TermEnergy(positions, params, term) ==
    LET perPoint == [p \in 1..Len(positions) |->
                       (positions[p][1] - term[1]) * (positions[p][1] - term[1])
                     + (positions[p][2] - term[1]) * (positions[p][2] - term[1])
                     + (positions[p][3] - term[1]) * (positions[p][3] - term[1])]
    IN  params["sigma"] * SumTo(perPoint, Len(positions))

PotentialEnergy(positions, params, bonds) ==
    LET perBond == [b \in 1..Len(bonds) |-> TermEnergy(positions, params, bonds[b])]
    IN  SumTo(perBond, Len(bonds))

\* Force on component c of point p: minus the derivative of the energy.
ForceComponent(positions, params, bonds, p, c) ==
    LET perBond == [b \in 1..Len(bonds) |->
                       2 * params["sigma"] * (positions[p][c] - bonds[b][1])]
    IN  0 - SumTo(perBond, Len(bonds))

Forces(positions, params, bonds) ==
    [p \in 1..Len(positions) |->
        [c \in 1..3 |-> ForceComponent(positions, params, bonds, p, c)]]

\* new Context(system, integrator, platform, properties): the context copies
\* the bond parameters and the default global parameters of the force; no
\* positions have been set yet.
NewContext(F, fid) ==
    [force |-> fid,
     params |-> F[fid].defaults,
     bonds |-> F[fid].bonds,
     hasSetPositions |-> FALSE,
     positions |-> [p \in 1..F[fid].numParticlesPerBond |-> Vec3Zero]]

Context_setPositions(ctx, positions) ==
    [ctx EXCEPT !.positions = positions, !.hasSetPositions = TRUE]

\* The check CustomCompoundBondForceImpl::initialize makes when a context
\* implementation is built: every bond has one value per per-bond parameter.
BondsAreValid(force) ==
    \A b \in 1..Len(force.bonds) :
       Len(force.bonds[b]) = Len(PerTermParameterNames)

\* A context whose implementation was torn down and not rebuilt.
BrokenContext ==
    [force |-> 0, params |-> [nm \in ParamNames |-> 0], bonds |-> <<>>,
     hasSetPositions |-> FALSE, positions |-> <<>>]

\* Context::reinitialize(): the implementation is rebuilt from the system,
\* so positions and parameter values of the old one are gone.  When the
\* force fails the backend's validation the rebuild throws and the context
\* is left without a working implementation.
Context_reinitialize(F, ctx) ==
    IF BondsAreValid(F[ctx.force]) THEN NewContext(F, ctx.force)
    ELSE BrokenContext

\* CustomCompoundBondForce::updateParametersInContext: the kernel copies
\* one value per per-bond parameter from every bond, whatever the length of
\* the stored vector (a shorter one would be read past its end).
updateParametersInContext(F, ctx) ==
    [ctx EXCEPT !.bonds =
        [b \in 1..Len(F[ctx.force].bonds) |->
            SubSeq(F[ctx.force].bonds[b], 1, Len(PerTermParameterNames))]]

\* ContextImpl::getParameter and setParameter throw for a name that is not
\* a global parameter of the system.
Context_hasParameter(ctx, name) == name \in DOMAIN ctx.params

Context_setParameter(ctx, name, value) ==
    IF Context_hasParameter(ctx, name)
    THEN [ctx EXCEPT !.params[name] = value]
    ELSE ctx

(* ------------------------ CustomSummation::Evaluator ------------------- *)
NewEvaluator(n, F, fid) ==
    [alive |-> TRUE,
     numArgs |-> n,
     positions |-> [p \in 1..F[fid].numParticlesPerBond |-> Vec3Zero],
     latestArguments |-> [i \in 1..n |-> 0],
     derivatives |-> [i \in 1..n |-> 0],
     value |-> 0,
     valueIsDirty |-> TRUE,
     derivativesAreDirty |-> TRUE,
     contextIsUnchanged |-> TRUE,
     context |-> NewContext(F, fid)]

\* A layout by component: argument i in component i / P of point i % P, for
\* P points.
LayOut_ByComponent(positions, arguments, n) ==
    [p \in 1..Len(positions) |->
        [c \in 1..3 |->
            IF (c - 1) * Len(positions) + (p - 1) < n
            THEN arguments[(c - 1) * Len(positions) + p]
            ELSE positions[p][c]]]

\* positions[i / 3][i % 3] = arguments[i] for i in [0, numArgs)
LayOut(positions, arguments, n) ==
    [p \in 1..Len(positions) |->
        [c \in 1..3 |->
            IF 3 * (p - 1) + (c - 1) < n
            THEN arguments[3 * (p - 1) + c]
            ELSE positions[p][c]]]

\* A comparison that never finds the arguments unchanged.
SkipsPush_Never(ev, arguments) == FALSE

SkipsPush(ev, arguments) ==
    arguments = ev.latestArguments /\ ev.contextIsUnchanged

setPositions(ev, arguments) ==
    IF SkipsPush(ev, arguments) THEN ev
    ELSE LET pos == LayOut(ev.positions, arguments, ev.numArgs)
         IN  [ev EXCEPT !.positions = pos,
                        !.context = Context_setPositions(@, pos),
                        !.latestArguments = arguments,
                        !.valueIsDirty = TRUE,
                        !.derivativesAreDirty = TRUE,
                        !.contextIsUnchanged = TRUE]

\* Evaluator::evaluate: the record holds the evaluator after the call and
\* what the call did; getState throws when no positions were ever set.
Evaluator_evaluate(ev, arguments) ==
    LET e1 == setPositions(ev, arguments)
        pushed == ~SkipsPush(ev, arguments)
    IN  IF e1.valueIsDirty
        THEN IF e1.context.hasSetPositions
             THEN LET v == PotentialEnergy(e1.context.positions,
                                           e1.context.params, e1.context.bonds)
                  IN  [ev |-> [e1 EXCEPT !.value = v, !.valueIsDirty = FALSE],
                       status |-> "ok", value |-> v,
                       pushed |-> pushed, asked |-> TRUE]
             ELSE [ev |-> e1, status |-> "PositionsNotSet", value |-> 0,
                   pushed |-> pushed, asked |-> TRUE]
        ELSE [ev |-> e1, status |-> "ok", value |-> e1.value,
              pushed |-> pushed, asked |-> FALSE]

\* evaluateDerivatives reading the forces by component: entry i from
\* component i / P of particle i % P, for P particles.
Evaluator_evaluateDerivatives_ByComponent(ev, arguments) ==
    LET e1 == setPositions(ev, arguments)
        pushed == ~SkipsPush(ev, arguments)
    IN  IF e1.derivativesAreDirty
        THEN IF e1.context.hasSetPositions
             THEN LET f == Forces(e1.context.positions,
                                  e1.context.params, e1.context.bonds)
                      d == [i \in 1..ev.numArgs |->
                               0 - f[((i - 1) % Len(f)) + 1][((i - 1) \div Len(f)) + 1]]
                  IN  [ev |-> [e1 EXCEPT !.derivatives = d,
                                         !.derivativesAreDirty = FALSE],
                       status |-> "ok", derivatives |-> d,
                       pushed |-> pushed, asked |-> TRUE]
             ELSE [ev |-> e1, status |-> "PositionsNotSet",
                   derivatives |-> e1.derivatives,
                   pushed |-> pushed, asked |-> TRUE]
        ELSE [ev |-> e1, status |-> "ok", derivatives |-> e1.derivatives,
              pushed |-> pushed, asked |-> FALSE]

\* Evaluator::evaluateDerivatives: derivatives[i] = -forces[i / 3][i % 3]
Evaluator_evaluateDerivatives(ev, arguments) ==
    LET e1 == setPositions(ev, arguments)
        pushed == ~SkipsPush(ev, arguments)
    IN  IF e1.derivativesAreDirty
        THEN IF e1.context.hasSetPositions
             THEN LET f == Forces(e1.context.positions,
                                  e1.context.params, e1.context.bonds)
                      d == [i \in 1..ev.numArgs |->
                               0 - f[((i - 1) \div 3) + 1][((i - 1) % 3) + 1]]
                  IN  [ev |-> [e1 EXCEPT !.derivatives = d,
                                         !.derivativesAreDirty = FALSE],
                       status |-> "ok", derivatives |-> d,
                       pushed |-> pushed, asked |-> TRUE]
             ELSE [ev |-> e1, status |-> "PositionsNotSet",
                   derivatives |-> e1.derivatives,
                   pushed |-> pushed, asked |-> TRUE]
        ELSE [ev |-> e1, status |-> "ok", derivatives |-> e1.derivatives,
              pushed |-> pushed, asked |-> FALSE]

\* update() refreshing the context and leaving it marked unchanged.
Evaluator_update_KeepsFlag(F, ev) ==
    [ev EXCEPT !.context = updateParametersInContext(F, @)]

Evaluator_update(F, ev) ==
    [ev EXCEPT !.context = updateParametersInContext(F, @),
               !.contextIsUnchanged = FALSE]

\* reset(): when reinitialize throws, the flag assignment is not reached.
Evaluator_reset(F, ev) ==
    IF BondsAreValid(F[ev.context.force])
    THEN [ev EXCEPT !.context = Context_reinitialize(F, @),
                    !.contextIsUnchanged = FALSE]
    ELSE [ev EXCEPT !.context = Context_reinitialize(F, @)]

Evaluator_getParameter(ev, name) == ev.context.params[name]

\* setParameter marking the context changed before the context is asked.
Evaluator_setParameter_MarksFirst(ev, name, value) ==
    [ev EXCEPT !.context = Context_setParameter(@, name, value),
               !.contextIsUnchanged = FALSE]

\* setParameter(): when the context throws, the flag assignment is not
\* reached.
Evaluator_setParameter(ev, name, value) ==
    IF Context_hasParameter(ev.context, name)
    THEN [ev EXCEPT !.context = Context_setParameter(@, name, value),
                    !.contextIsUnchanged = FALSE]
    ELSE ev

(* ----------------------------- CustomSummation ------------------------- *)
\* new CustomCompoundBondForce(numParticles, expression) followed by
\* addGlobalParameter for every overall parameter.
NewForce(n, overallParameters) ==
    [alive |-> TRUE,
     numParticlesPerBond |-> IntDiv(AddInt(n, 2), 3),
     defaults |-> overallParameters,
     bonds |-> <<>>]

NoForce ==
    [alive |-> FALSE, numParticlesPerBond |-> 0,
     defaults |-> [nm \in ParamNames |-> 0], bonds |-> <<>>]

NoContext ==
    [force |-> 0, params |-> [nm \in ParamNames |-> 0], bonds |-> <<>>,
     hasSetPositions |-> FALSE, positions |-> <<>>]

NoEvaluator ==
    [alive |-> FALSE, numArgs |-> 0, positions |-> <<>>,
     latestArguments |-> <<>>, derivatives |-> <<>>, value |-> 0,
     valueIsDirty |-> FALSE, derivativesAreDirty |-> FALSE,
     contextIsUnchanged |-> FALSE, context |-> NoContext]

NoObject == [alive |-> FALSE, force |-> 0, evaluator |-> 0]

\* What stops the Evaluator constructor: resize() of a vector to a negative
\* int, which is a size beyond max_size(), throws std::length_error, and the
\* backend refuses to create a Context for a System with no particles.
EvaluatorStatus(n, numParticles) ==
    IF numParticles < 0 \/ n < 0 THEN "LengthError"
    ELSE IF numParticles = 0 THEN "NoParticles"
    ELSE "ok"

\* CustomSummation::CustomSummation: the object obj gets a force and an
\* evaluator of its own, allocated at fid and eid.  When the Evaluator
\* constructor throws, the force stays allocated and no object exists.
Construct(F, E, fid, eid, n, overallParameters) ==
    LET F1 == [F EXCEPT ![fid] = NewForce(n, overallParameters)]
        status == EvaluatorStatus(n, F1[fid].numParticlesPerBond)
    IN  IF status = "ok"
        THEN [forces |-> F1,
              evals |-> [E EXCEPT ![eid] = NewEvaluator(n, F1, fid)],
              object |-> [alive |-> TRUE, force |-> fid, evaluator |-> eid],
              status |-> status]
        ELSE [forces |-> F1, evals |-> E, object |-> NoObject,
              status |-> status]

ASSERT_INDEX(index, num) == index < 0 \/ index >= num

getNumTerms(F, obj) == Len(F[obj.force].bonds)

\* addTerm putting the new term in front of the stored ones.
CS_addTerm_Prepend(F, E, obj, parameters) ==
    LET F1 == [F EXCEPT ![obj.force].bonds = <<parameters>> \o @]
    IN  [forces |-> F1,
         evals |-> [E EXCEPT ![obj.evaluator] = Evaluator_reset(F1, @)],
         status |-> IF BondsAreValid(F1[obj.force])
                    THEN "ok" ELSE "SchemaViolation",
         value |-> Len(F1[obj.force].bonds) - 1]

\* addTerm returning the new term count instead of the new index.
CS_addTerm_ReturnsCount(F, E, obj, parameters) ==
    LET F1 == [F EXCEPT ![obj.force].bonds = Append(@, parameters)]
    IN  [forces |-> F1,
         evals |-> [E EXCEPT ![obj.evaluator] = Evaluator_reset(F1, @)],
         status |-> IF BondsAreValid(F1[obj.force])
                    THEN "ok" ELSE "SchemaViolation",
         value |-> Len(F1[obj.force].bonds)]

\* CustomSummation::addTerm: addBond stores the vector unchecked, reset()
\* throws when the backend rejects it, and value is what a returning call
\* returns.
CS_addTerm(F, E, obj, parameters) ==
    LET F1 == [F EXCEPT ![obj.force].bonds = Append(@, parameters)]
    IN  [forces |-> F1,
         evals |-> [E EXCEPT ![obj.evaluator] = Evaluator_reset(F1, @)],
         status |-> IF BondsAreValid(F1[obj.force])
                    THEN "ok" ELSE "SchemaViolation",
         value |-> Len(F1[obj.force].bonds) - 1]

CS_getTerm(F, obj, index) ==
    IF ASSERT_INDEX(index, Len(F[obj.force].bonds))
    THEN [status |-> "IndexOutOfRange", vals |-> <<>>]
    ELSE [status |-> "ok", vals |-> F[obj.force].bonds[index + 1]]

\* setTerm reinitializing the context instead of refreshing its parameters.
CS_setTerm_Reset(F, E, obj, index, parameters) ==
    IF ASSERT_INDEX(index, Len(F[obj.force].bonds))
    THEN [forces |-> F, evals |-> E, status |-> "IndexOutOfRange"]
    ELSE LET F1 == [F EXCEPT ![obj.force].bonds[index + 1] = parameters]
         IN  [forces |-> F1,
              evals |-> [E EXCEPT ![obj.evaluator] = Evaluator_reset(F1, @)],
              status |-> "ok"]

\* setTerm refreshing the context before it checks the index.
CS_setTerm_UpdatesFirst(F, E, obj, index, parameters) ==
    LET E1 == [E EXCEPT ![obj.evaluator] = Evaluator_update(F, @)]
    IN  IF ASSERT_INDEX(index, Len(F[obj.force].bonds))
        THEN [forces |-> F, evals |-> E1, status |-> "IndexOutOfRange"]
        ELSE LET F1 == [F EXCEPT ![obj.force].bonds[index + 1] = parameters]
             IN  [forces |-> F1,
                  evals |-> [E EXCEPT ![obj.evaluator] = Evaluator_update(F1, @)],
                  status |-> "ok"]

CS_setTerm(F, E, obj, index, parameters) ==
    IF ASSERT_INDEX(index, Len(F[obj.force].bonds))
    THEN [forces |-> F, evals |-> E, status |-> "IndexOutOfRange"]
    ELSE LET F1 == [F EXCEPT ![obj.force].bonds[index + 1] = parameters]
         IN  [forces |-> F1,
              evals |-> [E EXCEPT ![obj.evaluator] = Evaluator_update(F1, @)],
              status |-> "ok"]

CS_getParameter(E, obj, name) == Evaluator_getParameter(E[obj.evaluator], name)

CS_setParameter(E, obj, name, value) ==
    [E EXCEPT ![obj.evaluator] = Evaluator_setParameter(@, name, value)]

getOverallParameterDefaultValue(E, obj, name) ==
    Evaluator_getParameter(E[obj.evaluator], name)

\* The two copy loops of clone(): the terms through getTerm and addTerm, the
\* overall parameters through getParameter and setParameter.
RECURSIVE CopyTerms(_, _, _, _, _)
CopyTerms(F, E, src, copy, i) ==
    IF i >= getNumTerms(F, src) THEN [forces |-> F, evals |-> E]
    ELSE LET r == CS_addTerm(F, E, copy, CS_getTerm(F, src, i).vals)
         IN  CopyTerms(r.forces, r.evals, src, copy, i + 1)

RECURSIVE CopyParameters(_, _, _, _)
CopyParameters(E, src, copy, names) ==
    IF names = {} THEN E
    ELSE LET nm == CHOOSE x \in names : TRUE
         IN  CopyParameters(
                 CS_setParameter(E, copy, nm, CS_getParameter(E, src, nm)),
                 src, copy, names \ {nm})

\* clone() copying the declared defaults and no live parameter value.
CS_clone_Defaults(F, E, src, fid, eid) ==
    LET c == Construct(F, E, fid, eid, E[src.evaluator].numArgs,
                       F[src.force].defaults)
        t == CopyTerms(c.forces, c.evals, src, c.object, 0)
    IN  [forces |-> t.forces, evals |-> t.evals, object |-> c.object]

\* clone() copying the pointers to the force and the evaluator.
CS_clone_Shallow(F, E, src, fid, eid) ==
    [forces |-> F, evals |-> E,
     object |-> [alive |-> TRUE, force |-> src.force, evaluator |-> src.evaluator]]

\* CustomSummation::clone: the copy is allocated at fid and eid.
CS_clone(F, E, src, fid, eid) ==
    LET overallParameters ==
            [nm \in ParamNames |-> getOverallParameterDefaultValue(E, src, nm)]
        c == Construct(F, E, fid, eid, E[src.evaluator].numArgs, overallParameters)
        t == CopyTerms(c.forces, c.evals, src, c.object, 0)
    IN  [forces |-> t.forces,
         evals |-> CopyParameters(t.evals, src, c.object, ParamNames),
         object |-> c.object]

\* The loop of evaluateDerivative(const double*, const int*) over derivOrder,
\* from entry i (1-based) on, with the int accumulator acc and the index
\* which (-1: never assigned).  acc += item overflows when acc + item exceeds
\* INT_MAX: the build either wraps the sum or folds the test away.
RECURSIVE ScanOrder(_, _, _, _)
ScanOrder(order, i, acc, which) ==
    IF i > Len(order) THEN {[thrown |-> FALSE, which |-> which]}
    ELSE LET item == order[i]
             w2 == IF item = 1 THEN i - 1 ELSE which
         IN  IF item < 0 THEN {[thrown |-> TRUE, which |-> which]}
             ELSE IF acc > 0 /\ item > INT_MAX - acc
             THEN {[thrown |-> TRUE, which |-> which]}
                  \cup ScanOrder(order, i + 1,
                                 (item - INT_MAX) + (acc - 1) + (0 - INT_MAX - 1), w2)
             ELSE IF acc + item > 1 THEN {[thrown |-> TRUE, which |-> which]}
             ELSE ScanOrder(order, i + 1, acc + item, w2)

(* ------------------------------- state --------------------------------- *)
NoRet ==
    [op |-> "construct", obj |-> 1, args |-> <<>>, idx |-> 0, vals |-> <<>>,
     name |-> "", status |-> "ok", value |-> 0,
     pushed |-> FALSE, energyAsked |-> FALSE, forcesAsked |-> FALSE]

Init ==
    /\ numArgs \in NumArgsVals
    /\ \E d \in DefaultVals :
          LET c == Construct([f \in ObjIds |-> NoForce],
                             [e \in ObjIds |-> NoEvaluator],
                             1, 1, numArgs, [nm \in ParamNames |-> d])
          IN  /\ forces = c.forces
              /\ evals = c.evals
              /\ objs = [o \in ObjIds |-> IF o = 1 THEN c.object ELSE NoObject]
    /\ ret = NoRet
    /\ cloneOps = 0

\* argument vectors: all zeros, or a single 1 among zeros
ArgVectors ==
    {[i \in 1..numArgs |-> 0]}
    \cup {[i \in 1..numArgs |-> IF i = k THEN 1 ELSE 0] : k \in 1..numArgs}
TermVectors == SeqsOfLen(TermVals, 1)
\* term vectors that do not have one value per per-term parameter
WrongTermVectors == {<<>>, <<1, 0>>}
\* a name that is no overall parameter
UnknownNames == {"tau"}
\* derivative-order vectors: entries 0 and 1 anywhere, at most one other entry
OrderVectors ==
    {d \in SeqsOfLen(OrderVals, numArgs) :
        Cardinality({i \in 1..numArgs : d[i] \notin {0, 1}}) <= 1}

(* ------------------------------ actions -------------------------------- *)
\* A call is followed on an object that exists and whose context has a
\* working implementation; what a call does on a context left broken by a
\* failed reinitialize is undefined.
Usable(o) ==
    objs[o].alive /\ evals[objs[o].evaluator].context # BrokenContext

\* cloneOps counts the calls made since the clone exists, up to MaxCloneOps.
Tick ==
    /\ cloneOps < MaxCloneOps
    /\ cloneOps' = IF objs[2].alive THEN cloneOps + 1 ELSE cloneOps

Evaluate(o, arguments) ==
    /\ Usable(o)
    /\ \E r \in {Evaluator_evaluate(evals[objs[o].evaluator], arguments)} :
           /\ evals' = [evals EXCEPT ![objs[o].evaluator] = r.ev]
           /\ ret' = [NoRet EXCEPT !.op = "evaluate", !.obj = o,
                                   !.args = arguments, !.status = r.status,
                                   !.value = r.value, !.pushed = r.pushed,
                                   !.energyAsked = r.asked]
    /\ Tick
    /\ UNCHANGED <<numArgs, objs, forces>>

\* evaluateDerivative(const vector<double>&, int which): the vector that
\* evaluateDerivatives returns is indexed unchecked, so a which outside
\* [0, numArgs) reads past it.
EvaluateDerivative(o, arguments, which) ==
    /\ Usable(o)
    /\ \E r \in {Evaluator_evaluateDerivatives(evals[objs[o].evaluator], arguments)} :
           /\ evals' = [evals EXCEPT ![objs[o].evaluator] = r.ev]
           /\ ret' = [NoRet EXCEPT !.op = "evaluateDerivative", !.obj = o,
                                   !.args = arguments, !.idx = which,
                                   !.status = IF r.status # "ok" THEN r.status
                                              ELSE IF ASSERT_INDEX(which, numArgs)
                                              THEN "OutOfBoundsRead" ELSE "ok",
                                   !.value = IF r.status = "ok"
                                                /\ ~ASSERT_INDEX(which, numArgs)
                                             THEN r.derivatives[which + 1] ELSE 0,
                                   !.pushed = r.pushed,
                                   !.forcesAsked = r.asked]
    /\ Tick
    /\ UNCHANGED <<numArgs, objs, forces>>

\* evaluateDerivative(const double*, const int* derivOrder)
EvaluateDerivativeOrder(o, arguments, derivOrder) ==
    /\ Usable(o)
    /\ \E out \in ScanOrder(derivOrder, 1, 0, -1) :
          IF out.thrown
          THEN /\ ret' = [NoRet EXCEPT !.op = "evaluateDerivativeOrder",
                                       !.obj = o, !.vals = derivOrder,
                                       !.status = "InvalidDerivativeOrder"]
               /\ UNCHANGED evals
          ELSE \E which \in (IF out.which = -1 THEN 0..numArgs ELSE {out.which}) :
                 \E r \in {Evaluator_evaluateDerivatives(
                              evals[objs[o].evaluator], arguments)} :
                     /\ evals' = [evals EXCEPT ![objs[o].evaluator] = r.ev]
                     /\ ret' = [NoRet EXCEPT
                                  !.op = "evaluateDerivativeOrder", !.obj = o,
                                  !.args = arguments, !.vals = derivOrder,
                                  !.idx = which,
                                  !.status = IF r.status # "ok" THEN r.status
                                             ELSE IF which >= numArgs
                                             THEN "OutOfBoundsRead" ELSE "ok",
                                  !.value = IF r.status = "ok" /\ which < numArgs
                                            THEN r.derivatives[which + 1] ELSE 0,
                                  !.pushed = r.pushed,
                                  !.forcesAsked = r.asked]
    /\ Tick
    /\ UNCHANGED <<numArgs, objs, forces>>

AddTerm(o, parameters) ==
    /\ Usable(o)
    /\ Len(forces[objs[o].force].bonds) < MaxTerms
    /\ \E r \in {CS_addTerm(forces, evals, objs[o], parameters)} :
           /\ forces' = r.forces
           /\ evals' = r.evals
           /\ ret' = [NoRet EXCEPT !.op = "addTerm", !.obj = o,
                                   !.vals = parameters, !.status = r.status,
                                   !.value = IF r.status = "ok"
                                             THEN r.value ELSE 0]
    /\ Tick
    /\ UNCHANGED <<numArgs, objs>>

SetTerm(o, index, parameters) ==
    /\ Usable(o)
    /\ \E r \in {CS_setTerm(forces, evals, objs[o], index, parameters)} :
           /\ forces' = r.forces
           /\ evals' = r.evals
           /\ ret' = [NoRet EXCEPT !.op = "setTerm", !.obj = o, !.idx = index,
                                   !.vals = parameters, !.status = r.status]
    /\ Tick
    /\ UNCHANGED <<numArgs, objs>>

\* new CustomSummation(n, ...) for the object o, which does not exist yet.
New(o, n, overallParameters) ==
    /\ ~objs[o].alive
    /\ \E r \in {Construct(forces, evals, o, o, n, overallParameters)} :
           /\ forces' = r.forces
           /\ evals' = r.evals
           /\ objs' = [objs EXCEPT ![o] = r.object]
           /\ numArgs' = IF r.status = "ok" THEN n ELSE numArgs
           /\ ret' = [NoRet EXCEPT !.op = "new", !.obj = o, !.idx = n,
                                   !.status = r.status]
    /\ Tick

GetTerm(o, index) ==
    /\ Usable(o)
    /\ \E r \in {CS_getTerm(forces, objs[o], index)} :
           ret' = [NoRet EXCEPT !.op = "getTerm", !.obj = o, !.idx = index,
                                !.vals = r.vals, !.status = r.status]
    /\ Tick
    /\ UNCHANGED <<numArgs, objs, forces, evals>>

GetParameter(o, name) ==
    /\ Usable(o)
    /\ ret' = [NoRet EXCEPT
                  !.op = "getParameter", !.obj = o, !.name = name,
                  !.status = IF Context_hasParameter(
                                   evals[objs[o].evaluator].context, name)
                             THEN "ok" ELSE "NoSuchParameter",
                  !.value = IF Context_hasParameter(
                                   evals[objs[o].evaluator].context, name)
                            THEN CS_getParameter(evals, objs[o], name) ELSE 0]
    /\ Tick
    /\ UNCHANGED <<numArgs, objs, forces, evals>>

SetParameter(o, name, value) ==
    /\ Usable(o)
    /\ evals' = CS_setParameter(evals, objs[o], name, value)
    /\ ret' = [NoRet EXCEPT !.op = "setParameter", !.obj = o, !.name = name,
                            !.value = value,
                            !.status =
                               IF Context_hasParameter(
                                     evals[objs[o].evaluator].context, name)
                               THEN "ok" ELSE "NoSuchParameter"]
    /\ Tick
    /\ UNCHANGED <<numArgs, objs, forces>>

Clone(o, c) ==
    /\ objs[o].alive
    /\ ~objs[c].alive
    /\ \E r \in {CS_clone(forces, evals, objs[o], c, c)} :
           /\ forces' = r.forces
           /\ evals' = r.evals
           /\ objs' = [objs EXCEPT ![c] = r.object]
           /\ ret' = [NoRet EXCEPT !.op = "clone", !.obj = o, !.value = c]
    /\ Tick
    /\ UNCHANGED numArgs

Next ==
    \/ \E a \in ArgVectors : Evaluate(1, a)
    \/ \E a \in ArgVectors : \E w \in 0..(numArgs - 1) : EvaluateDerivative(1, a, w)
    \/ \E p \in TermVectors : AddTerm(1, p)
    \/ \E i \in 0..(MaxTerms - 1) : \E p \in TermVectors : SetTerm(1, i, p)
    \/ \E nm \in ParamNames : \E v \in ParamVals : SetParameter(1, nm, v)

Spec == Init /\ [][Next]_vars

\* The array form of evaluateDerivative, on an object whose terms and
\* parameters change.
NextOrder ==
    \/ \E a \in ArgVectors : \E d \in OrderVectors : EvaluateDerivativeOrder(1, a, d)
    \/ \E p \in TermVectors : AddTerm(1, p)
    \/ \E nm \in ParamNames : \E v \in ParamVals : SetParameter(1, nm, v)

SpecOrder == Init /\ [][NextOrder]_vars

\* A CustomSummation and its clone, both in use.
NextClone ==
    \/ Clone(1, 2)
    \/ \E o \in ObjIds : \E a \in ArgVectors : Evaluate(o, a)
    \/ \E o \in ObjIds : \E p \in TermVectors : AddTerm(o, p)
    \/ \E o \in ObjIds : \E i \in 0..(MaxTerms - 1) : \E p \in TermVectors :
          SetTerm(o, i, p)
    \/ \E o \in ObjIds : \E nm \in ParamNames : \E v \in ParamVals :
          SetParameter(o, nm, v)

SpecClone == Init /\ [][NextClone]_vars

\* Calls with an index or a name outside its contract: term indices and
\* derivative indices out of range, unknown parameter names.
NextIndex ==
    \/ \E a \in ArgVectors : Evaluate(1, a)
    \/ \E a \in ArgVectors : \E w \in (0 - 1)..numArgs : EvaluateDerivative(1, a, w)
    \/ \E p \in TermVectors : AddTerm(1, p)
    \/ \E i \in (0 - 1)..MaxTerms : \E p \in TermVectors : SetTerm(1, i, p)
    \/ \E i \in (0 - 1)..MaxTerms : GetTerm(1, i)
    \/ \E nm \in ParamNames \cup UnknownNames : \E v \in ParamVals :
          SetParameter(1, nm, v)
    \/ \E nm \in ParamNames \cup UnknownNames : GetParameter(1, nm)

\* A function of one argument.
InitIndex == Init /\ numArgs = 1

SpecIndex == InitIndex /\ [][NextIndex]_vars

\* Term vectors of any length.  setTerm gets no vector shorter than the
\* per-term parameter count, which the backend would read past its end.
NextSchema ==
    \/ \E a \in ArgVectors : Evaluate(1, a)
    \/ \E p \in TermVectors \cup WrongTermVectors : AddTerm(1, p)
    \/ \E i \in 0..(MaxTerms - 1) :
          \E p \in {q \in TermVectors \cup WrongTermVectors :
                        Len(q) >= Len(PerTermParameterNames)} : SetTerm(1, i, p)
    \/ \E i \in 0..(MaxTerms - 1) : GetTerm(1, i)

SpecSchema == Init /\ [][NextSchema]_vars

\* Construction as a call, with any argument count, and the use of the
\* object it made.
InitNew ==
    /\ numArgs = 0
    /\ objs = [o \in ObjIds |-> NoObject]
    /\ forces = [f \in ObjIds |-> NoForce]
    /\ evals = [e \in ObjIds |-> NoEvaluator]
    /\ ret = NoRet
    /\ cloneOps = 0

NextNew ==
    \/ \E n \in NewArgCounts : \E d \in DefaultVals :
          New(1, n, [nm \in ParamNames |-> d])
    \/ \E a \in ArgVectors : Evaluate(1, a)
    \/ \E a \in ArgVectors : \E w \in {0, numArgs - 1} : EvaluateDerivative(1, a, w)
    \/ \E p \in TermVectors : AddTerm(1, p)
    \/ \E i \in 0..(MaxTerms - 1) : \E p \in TermVectors : SetTerm(1, i, p)

SpecNew == InitNew /\ [][NextNew]_vars

(* --------------------------- observations ------------------------------ *)
Force(o) == forces[objs[o].force]
Eval(o) == evals[objs[o].evaluator]
NumTerms(o) == Len(Force(o).bonds)

\* The positions the argument vector a stands for, padding at zero.
PositionsOf(a) ==
    LayOut([p \in 1..((numArgs + 2) \div 3) |-> Vec3Zero], a, numArgs)

\* The sum over the terms stored in the object, at its live parameter values.
TrueValue(o, a) ==
    PotentialEnergy(PositionsOf(a), Eval(o).context.params, Force(o).bonds)

\* Its derivative with respect to argument i (0-based).
TrueDerivative(o, a, i) ==
    0 - ForceComponent(PositionsOf(a), Eval(o).context.params, Force(o).bonds,
                       (i \div 3) + 1, (i % 3) + 1)

Computed(r) == r.status = "ok" /\ (r.energyAsked \/ r.forcesAsked)

(* ------------------------------- claims -------------------------------- *)
\* C1: after any sequence of addTerm, setTerm, setParameter, evaluate and
\* evaluateDerivative calls, evaluate(a) returns the sum for the current
\* terms, the live parameter values and the positions derived from a, and
\* evaluateDerivative(a, i) returns its derivative with respect to argument i.
C1_CacheCoherence ==
    /\ ret.op = "evaluate" =>
          ret.status = "ok" /\ ret.value = TrueValue(ret.obj, ret.args)
    /\ ret.op = "evaluateDerivative" =>
          ret.status = "ok" /\ ret.value = TrueDerivative(ret.obj, ret.args, ret.idx)

\* Whenever evaluate or evaluateDerivative does return, its value is the one
\* of the current terms, parameters and arguments.
CoherentWhenAnswered ==
    /\ ret.op = "evaluate" /\ ret.status = "ok" =>
          ret.value = TrueValue(ret.obj, ret.args)
    /\ ret.op = "evaluateDerivative" /\ ret.status = "ok" =>
          ret.value = TrueDerivative(ret.obj, ret.args, ret.idx)

C3_AllZeroOrderFails ==
    (ret.op = "evaluateDerivativeOrder"
       /\ \A i \in 1..Len(ret.vals) : ret.vals[i] = 0)
    => ret.status = "InvalidDerivativeOrder"

HasNegative(d) == \E i \in 1..Len(d) : d[i] < 0

SumExceedsOne(d) ==
    \/ \E i \in 1..Len(d) : d[i] > 1
    \/ \E i, j \in 1..Len(d) : i # j /\ d[i] >= 1 /\ d[j] >= 1

SingleOne(d) ==
    \E i \in 1..Len(d) : d[i] = 1 /\ \A j \in 1..Len(d) : j # i => d[j] = 0

\* C4: the array form of evaluateDerivative fails with an invalid-derivative-
\* order error whenever derivOrder has a negative entry or entries summing to
\* more than 1; with exactly one entry 1 and all others 0 it returns the first
\* derivative with respect to the argument at the index of that entry.
C4_OrderValidation ==
    ret.op = "evaluateDerivativeOrder" =>
      /\ (HasNegative(ret.vals) \/ SumExceedsOne(ret.vals))
            => ret.status = "InvalidDerivativeOrder"
      /\ SingleOne(ret.vals) =>
            /\ ret.status = "ok"
            /\ ret.vals[ret.idx + 1] = 1
            /\ ret.value = TrueDerivative(ret.obj, ret.args, ret.idx)

\* A failing array-form call leaves the evaluator and the force as they were
\* and asks the backend nothing.
FailedOrderIsInert ==
    [][(ret'.op = "evaluateDerivativeOrder"
          /\ ret'.status = "InvalidDerivativeOrder")
       => /\ evals' = evals /\ forces' = forces
          /\ ~ret'.pushed /\ ~ret'.forcesAsked /\ ~ret'.energyAsked]_vars

View(F, E, obj) == <<F[obj.force], E[obj.evaluator]>>

\* C6: source and clone share no force, evaluator or context, and a call on
\* one of them leaves the terms, live parameter values, cached results and
\* flags of the other unchanged.
C6_CloneIsIndependent ==
    [][(objs[1].alive /\ objs[2].alive) =>
         /\ objs' = objs
         /\ objs[1].force # objs[2].force
         /\ objs[1].evaluator # objs[2].evaluator
         /\ \A o \in ObjIds : evals'[objs[o].evaluator].context.force = objs[o].force
         /\ \A o \in ObjIds :
               o # ret'.obj => View(forces', evals', objs[o]) = View(forces, evals, objs[o])]_vars

\* The clone has been changed and now differs from its source.
C6_Witness ==
    /\ objs[1].alive /\ objs[2].alive
    /\ cloneOps >= 1
    /\ ret.obj = 2 /\ ret.op \in {"addTerm", "setTerm", "setParameter"}
    /\ View(forces, evals, objs[1]) # View(forces, evals, objs[2])
    /\ Force(1).bonds # Force(2).bonds

\* C7: setParameter(name, v) makes getParameter(name) return v and leaves the
\* default value reported for the parameter at the value given at construction.
C7_DefaultSurvivesSetParameter ==
    ret.op = "setParameter" =>
      /\ CS_getParameter(evals, objs[ret.obj], ret.name) = ret.value
      /\ getOverallParameterDefaultValue(evals, objs[ret.obj], ret.name)
            = Force(ret.obj).defaults[ret.name]

\* C8: getTerm(k) for the index k that addTerm(v) returned yields v, and later
\* addTerm calls and setTerm calls on other indices leave getTerm(k) as it is.
C8_AddThenGet ==
    [][/\ ret'.op = "addTerm" =>
            CS_getTerm(forces', objs[ret'.obj], ret'.value)
              = [status |-> "ok", vals |-> ret'.vals]
       /\ ret'.op \in {"addTerm", "setTerm"} =>
            \A k \in 0..(NumTerms(ret'.obj) - 1) :
               (ret'.op = "setTerm" => k # ret'.idx) =>
                  CS_getTerm(forces', objs[ret'.obj], k)
                    = CS_getTerm(forces, objs[ret'.obj], k)]_vars

\* A term added earlier is still what it was after a later addTerm or a
\* setTerm on another index put a different value next to it.
C8_Witness ==
    /\ ret.op \in {"addTerm", "setTerm"} /\ ret.status = "ok"
    /\ NumTerms(ret.obj) = 2
    /\ \E k \in 0..1 :
          /\ (ret.op = "setTerm" => k # ret.idx)
          /\ (ret.op = "addTerm" => k # ret.value)
          /\ CS_getTerm(forces, objs[ret.obj], k).vals # ret.vals

\* C9: addTerm returns the term count before the call and raises it by one;
\* no other call changes the term count of an object, and no call changes the
\* term held at an existing index except setTerm at the index it is given.
C9_AppendOnly ==
    [][\A o \in ObjIds : objs[o].alive =>
         /\ objs'[o] = objs[o]
         /\ Len(forces'[objs[o].force].bonds) >= NumTerms(o)
         /\ (ret'.op = "addTerm" /\ ret'.obj = o) =>
               /\ ret'.value = NumTerms(o)
               /\ Len(forces'[objs[o].force].bonds) = NumTerms(o) + 1
         /\ ~(ret'.op = "addTerm" /\ ret'.obj = o) =>
               Len(forces'[objs[o].force].bonds) = NumTerms(o)
         /\ \A k \in 0..(NumTerms(o) - 1) :
               \/ ret'.op = "setTerm" /\ ret'.obj = o /\ ret'.idx = k
               \/ CS_getTerm(forces', objs[o], k) = CS_getTerm(forces, objs[o], k)]_vars

\* Two terms were appended at indices 0 and 1, the second one just now.
C9_Witness ==
    /\ ret.op = "addTerm" /\ ret.value = 1
    /\ NumTerms(ret.obj) = 2

\* C10: setTerm(i, v) with i in [0, termCount) makes getTerm(i) return v and
\* leaves every other term, the term count and every live overall-parameter
\* value unchanged.
C10_SetTermFrame ==
    [][(ret'.op = "setTerm" /\ 0 <= ret'.idx /\ ret'.idx < NumTerms(ret'.obj)) =>
         LET obj == objs[ret'.obj]
         IN  /\ ret'.status = "ok"
             /\ CS_getTerm(forces', obj, ret'.idx)
                  = [status |-> "ok", vals |-> ret'.vals]
             /\ \A j \in 0..(NumTerms(ret'.obj) - 1) :
                   j # ret'.idx =>
                      CS_getTerm(forces', obj, j) = CS_getTerm(forces, obj, j)
             /\ Len(forces'[obj.force].bonds) = NumTerms(ret'.obj)
             /\ \A nm \in ParamNames :
                   CS_getParameter(evals', obj, nm) = CS_getParameter(evals, obj, nm)]_vars

\* setTerm replaced one of two terms by a new value while the live parameter
\* value differed from the declared default.
C10_Witness ==
    /\ ret.op = "setTerm" /\ ret.status = "ok"
    /\ NumTerms(ret.obj) = 2
    /\ \E nm \in ParamNames :
          CS_getParameter(evals, objs[ret.obj], nm) # Force(ret.obj).defaults[nm]
    /\ Force(ret.obj).bonds[1] # Force(ret.obj).bonds[2]

\* C11: getTerm(i) and setTerm(i, v) with i < 0 or i >= termCount fail with
\* an index-out-of-range error, and the failing setTerm leaves the stored
\* terms, the term count, the cached results, the three evaluator flags and
\* the backend context as they were.
C11_IndexOutOfRange ==
    [][(ret'.op \in {"getTerm", "setTerm"}
          /\ (ret'.idx < 0 \/ ret'.idx >= NumTerms(ret'.obj)))
       => /\ ret'.status = "IndexOutOfRange"
          /\ forces' = forces
          /\ evals' = evals]_vars

\* setTerm has just failed on an index that is not below the term count, on
\* an object that holds a term, a cached value and a clean value flag.
C11_Witness ==
    /\ ret.op = "setTerm" /\ ret.status = "IndexOutOfRange"
    /\ ret.idx >= NumTerms(ret.obj)
    /\ NumTerms(ret.obj) >= 1
    /\ ~Eval(ret.obj).valueIsDirty /\ Eval(ret.obj).contextIsUnchanged
    /\ Eval(ret.obj).value > 0

\* C12: evaluateDerivative(args, which) with which < 0 or which >= argCount
\* fails with an index-out-of-range error instead of returning a value.  The
\* calls in which the backend refused the force query before the index was
\* used are left aside, so that a violation is one of the index alone.
C12_WhichOutOfRange ==
    (ret.op = "evaluateDerivative" /\ (ret.idx < 0 \/ ret.idx >= numArgs)
       /\ ret.status # "PositionsNotSet")
    => ret.status = "IndexOutOfRange"

\* C13: every stored term has exactly one value per declared per-term
\* parameter after any sequence of operations; addTerm or setTerm with a
\* vector of any other length fails with a schema-violation error and leaves
\* the term count and the stored terms unchanged.
C13_TermSchema ==
    [][/\ \A o \in ObjIds : objs'[o].alive =>
             \A k \in 1..Len(forces'[objs'[o].force].bonds) :
                Len(forces'[objs'[o].force].bonds[k]) = Len(PerTermParameterNames)
       /\ (ret'.op \in {"addTerm", "setTerm"}
             /\ Len(ret'.vals) # Len(PerTermParameterNames))
          => /\ ret'.status = "SchemaViolation"
             /\ forces' = forces]_vars

\* C14: getParameter(name) and setParameter(name, v) with a name that is not
\* a declared overall parameter fail with a no-such-parameter error, and the
\* failing setParameter leaves every live parameter value, the flag that
\* marks the context as unchanged and the rest of the object as they were.
C14_NoSuchParameter ==
    [][(ret'.op \in {"getParameter", "setParameter"}
          /\ ret'.name \notin ParamNames)
       => /\ ret'.status = "NoSuchParameter"
          /\ \A nm \in ParamNames :
                CS_getParameter(evals', objs[ret'.obj], nm)
                  = CS_getParameter(evals, objs[ret'.obj], nm)
          /\ evals'[objs[ret'.obj].evaluator].contextIsUnchanged
                = Eval(ret'.obj).contextIsUnchanged
          /\ evals' = evals
          /\ forces' = forces]_vars

\* setParameter has just failed on an unknown name, on an object whose live
\* parameter value is not the declared default and whose context is marked
\* unchanged since a value was computed.
C14_Witness ==
    /\ ret.op = "setParameter" /\ ret.status = "NoSuchParameter"
    /\ ret.name \in UnknownNames
    /\ Eval(ret.obj).contextIsUnchanged /\ ~Eval(ret.obj).valueIsDirty
    /\ Eval(ret.obj).value > 0
    /\ \E nm \in ParamNames :
          CS_getParameter(evals, objs[ret.obj], nm) # Force(ret.obj).defaults[nm]

\* ceil(n / 3) for n >= 0
CeilThird(n) == (n \div 3) + (IF n % 3 = 0 THEN 0 ELSE 1)

\* The particles of the object o: the points of a bond of its force, of its
\* evaluator's position array and of its context.
HasParticles(o, k) ==
    /\ Force(o).numParticlesPerBond = k
    /\ Len(Eval(o).positions) = k
    /\ Len(Eval(o).context.positions) = k

\* C15: construction with argCount < 1 fails and leaves no usable object;
\* for every argCount >= 1 it succeeds and creates exactly ceil(argCount/3)
\* particles.
C15_Construction ==
    ret.op = "new" =>
      IF ret.idx < 1
      THEN ret.status # "ok" /\ ~objs[ret.obj].alive
      ELSE /\ ret.status = "ok" /\ objs[ret.obj].alive
           /\ HasParticles(ret.obj, CeilThird(ret.idx))

\* The same for the argument counts n with n + 2 no greater than INT_MAX.
ConstructionWithoutOverflow ==
    (ret.op = "new" /\ ret.idx <= INT_MAX - 2) => C15_Construction

\* The arguments a were pushed by an earlier setPositions call on the
\* evaluator and no update, reset or setParameter happened since.
PushedBefore(ev, a) ==
    ev.context.hasSetPositions /\ ev.latestArguments = a /\ ev.contextIsUnchanged

\* setPositions(a) on ev pushes the positions of a to the context, records a
\* and marks both caches dirty.
Pushes(ev, a) ==
    LET e1 == setPositions(ev, a)
    IN  /\ e1.context.hasSetPositions
        /\ e1.context.positions = PositionsOf(a)
        /\ e1.latestArguments = a
        /\ e1.valueIsDirty /\ e1.derivativesAreDirty

\* A call of evaluate or evaluateDerivative on arguments that the evaluator
\* owes a push: its setPositions pushes them.
OwedPushIsMade ==
    (ret'.op \in {"evaluate", "evaluateDerivative"}
       /\ ~PushedBefore(Eval(ret'.obj), ret'.args))
    => ret'.pushed /\ Pushes(Eval(ret'.obj), ret'.args)

\* C16: setPositions(args) skips the push only when args was pushed by an
\* earlier call and nothing changed the context since; in every other case,
\* the first call on a fresh evaluator included whatever its arguments, it
\* pushes the positions, records args and marks both caches dirty.
C16_SkipOnlyRepeats == [][OwedPushIsMade]_vars

\* The same once positions were pushed or the context was changed: only an
\* evaluator still as constructed skips a push it owes.
SkipOnlyRepeatsAfterFirstUse ==
    [][(Eval(1).context.hasSetPositions \/ ~Eval(1).contextIsUnchanged)
       => OwedPushIsMade]_vars

\* Both cache bits of ev are set once setPositions(a) has run on it.
BothDirtyAt(ev, a) ==
    setPositions(ev, a).valueIsDirty /\ setPositions(ev, a).derivativesAreDirty

\* The step is evaluate(a) on an evaluator that is BothDirty at a.  It asks
\* the backend for the energy and clears the value bit alone; then
\* evaluateDerivatives(a) asks for the forces and clears the derivative bit
\* alone; then evaluate(a) asks nothing: one energy query and one force
\* query over the three calls.
OneQueryEach ==
    LET ev1 == evals'[objs[ret'.obj].evaluator]
        r2 == Evaluator_evaluateDerivatives(ev1, ret'.args)
        r3 == Evaluator_evaluate(r2.ev, ret'.args)
    IN  /\ ret'.energyAsked
        /\ ~ev1.valueIsDirty /\ ev1.derivativesAreDirty
        /\ r2.asked /\ ~r2.pushed
        /\ ~r2.ev.valueIsDirty /\ ~r2.ev.derivativesAreDirty
        /\ ~r3.asked /\ ~r3.pushed

\* C17: the evaluator starts BothDirty and the two cache bits are
\* independent: in evaluate(a), evaluateDerivatives(a), evaluate(a) with no
\* mutation in between, begun on an evaluator that is BothDirty at a, the
\* energy query runs exactly once and the force query exactly once.
C17_IndependentBits ==
    [][/\ ret.op = "construct" =>
            Eval(1).valueIsDirty /\ Eval(1).derivativesAreDirty
       /\ (ret'.op = "evaluate" /\ BothDirtyAt(Eval(ret'.obj), ret'.args))
            => OneQueryEach]_vars

\* The same for the sequences whose first evaluate(a) returns a value.
IndependentBitsWhenAnswered ==
    [][(ret'.op = "evaluate" /\ ret'.status = "ok"
          /\ BothDirtyAt(Eval(ret'.obj), ret'.args))
       => OneQueryEach]_vars

\* A call of addTerm, setTerm or setParameter has just returned.
MutationReturned ==
    ret.op \in {"addTerm", "setTerm", "setParameter"} /\ ret.status = "ok"

\* C18: immediately after a structural mutation (setTerm, addTerm,
\* setParameter) returns, both the value-dirty and the derivative-dirty flag
\* of the evaluator are set.
C18_MutationSetsDirtyFlags ==
    MutationReturned =>
       Eval(ret.obj).valueIsDirty /\ Eval(ret.obj).derivativesAreDirty

\* C18, amended: immediately after a structural mutation returns, the
\* context is marked changed, so that the next setPositions, whatever its
\* arguments, pushes the positions and sets both dirty flags; the mutation
\* itself leaves the two dirty flags as they were.
C18_MutationMarksContextChanged ==
    [][MutationReturned' =>
         LET ev == evals'[objs[ret'.obj].evaluator]
         IN  /\ ~ev.contextIsUnchanged
             /\ \A a \in ArgVectors : Pushes(ev, a)
             /\ ev.valueIsDirty = Eval(ret'.obj).valueIsDirty
             /\ ev.derivativesAreDirty = Eval(ret'.obj).derivativesAreDirty]_vars

\* setTerm has just returned on an evaluator whose two caches were clean and
\* still carry the results computed before the change.
C18_Witness ==
    /\ MutationReturned /\ ret.op = "setTerm"
    /\ ~Eval(ret.obj).valueIsDirty /\ ~Eval(ret.obj).derivativesAreDirty
    /\ ~Eval(ret.obj).contextIsUnchanged
    /\ Eval(ret.obj).value
          # TrueValue(ret.obj, Eval(ret.obj).latestArguments)

\* C19: after any sequence of setPositions calls the position array of the
\* evaluator has ceil(argCount/3) points, argument i of the last pushed
\* vector is component i mod 3 of point i div 3 for every i < argCount, and
\* every component of flat index >= argCount is zero; the context holds the
\* same array once positions were pushed.
C19_PositionLayout ==
    objs[1].alive =>
      LET ev == Eval(1)
      IN  /\ Len(ev.positions) = CeilThird(numArgs)
          /\ \A i \in 0..(numArgs - 1) :
                ev.positions[(i \div 3) + 1][(i % 3) + 1] = ev.latestArguments[i + 1]
          /\ \A i \in numArgs..(3 * Len(ev.positions) - 1) :
                ev.positions[(i \div 3) + 1][(i % 3) + 1] = 0
          /\ ev.context.hasSetPositions => ev.context.positions = ev.positions

\* Four arguments on two points: the last push put a 1 in the first
\* component of the second point, whose two padding components are zero, and
\* it was not the first push, since derivatives computed after an earlier
\* one are still stored.
C19_Witness ==
    /\ objs[1].alive /\ numArgs = 4
    /\ Eval(1).context.hasSetPositions
    /\ Eval(1).latestArguments = <<0, 0, 0, 1>>
    /\ Eval(1).context.positions = <<<<0, 0, 0>>, <<1, 0, 0>>>>
    /\ ~Eval(1).valueIsDirty /\ Eval(1).derivativesAreDirty
    /\ Eval(1).derivatives # [i \in 1..4 |-> 0]

\* C20: the vector that evaluateDerivatives returns has exactly argCount
\* entries, and entry i is minus component i mod 3 of the backend force on
\* particle i div 3 for every i in [0, argCount), so that no force component
\* of a padding slot is in the result; evaluateDerivative(args, which)
\* returns entry which of it.
C20_DerivativesFromForces ==
    (ret.op = "evaluateDerivative" /\ ret.status = "ok") =>
      LET ev == Eval(ret.obj)
          f == Forces(ev.context.positions, ev.context.params, ev.context.bonds)
      IN  /\ DOMAIN ev.derivatives = 1..numArgs
          /\ \A i \in 0..(numArgs - 1) :
                ev.derivatives[i + 1] = 0 - f[(i \div 3) + 1][(i % 3) + 1]
          /\ ret.value = ev.derivatives[ret.idx + 1]

\* Four arguments on two particles: the derivatives just returned differ
\* between the two particles, and the force on the second particle has
\* non-zero padding components that the four entries leave out.
C20_Witness ==
    /\ ret.op = "evaluateDerivative" /\ ret.status = "ok" /\ ret.forcesAsked
    /\ numArgs = 4 /\ ret.idx = 3
    /\ Eval(1).derivatives[1] # Eval(1).derivatives[4]
    /\ Eval(1).derivatives[1] # 0
    /\ ForceComponent(Eval(1).context.positions, Eval(1).context.params,
                      Eval(1).context.bonds, 2, 3) # 0

\* C21: the backend is asked for the energy or the forces only when
\* positions have been pushed into the context since it was created or last
\* reinitialized, in every call sequence: a first evaluate or
\* evaluateDerivative on a fresh object with all-zero arguments included, and
\* an evaluate that follows addTerm with the arguments of the call before.
C21_PositionsBeforeQuery ==
    (ret.energyAsked \/ ret.forcesAsked)
    => Eval(ret.obj).context.hasSetPositions

\* The same for the calls made once positions were pushed or the context was
\* changed, the evaluate after addTerm among them: the call pushes the
\* positions itself when the context holds none.
PositionsBeforeQueryAfterFirstUse ==
    [][((Eval(1).context.hasSetPositions \/ ~Eval(1).contextIsUnchanged)
          /\ (ret'.energyAsked \/ ret'.forcesAsked))
       => /\ evals'[objs[ret'.obj].evaluator].context.hasSetPositions
          /\ ret'.status = "ok"
          /\ ~Eval(ret'.obj).context.hasSetPositions => ret'.pushed]_vars

\* C22: addTerm leaves the live value of every overall parameter unchanged:
\* after setParameter(name, v) and any number of addTerm calls,
\* getParameter(name) still returns v.
C22_AddTermKeepsParameters ==
    [][(ret'.op = "addTerm" /\ ret'.status = "ok") =>
         \A nm \in ParamNames :
            CS_getParameter(evals', objs[ret'.obj], nm)
              = CS_getParameter(evals, objs[ret'.obj], nm)]_vars

\* What addTerm does to them: every live value is back at the default
\* declared at construction.
AddTermRestoresDefaults ==
    (ret.op = "addTerm" /\ ret.status = "ok") =>
       \A nm \in ParamNames :
          CS_getParameter(evals, objs[ret.obj], nm) = Force(ret.obj).defaults[nm]

=============================================================================
